---- MODULE Spec2Model ----
(***************************************************************************)
(* reana-job-controller: the job managers of the container backend         *)
(* (kubernetes_job_manager.py), of the federated scheduler pool            *)
(* (htcondorvc3_job_manager.py) and of the direct scheduler pool           *)
(* (condor.py), as state machines.                                         *)
(*                                                                         *)
(* Python values carry their type: [t |-> <type name>, v |-> <payload>].   *)
(* Dictionaries that the code iterates are kept as sequences of            *)
(* <<key, value>> pairs in insertion order (Python >= 3.7).                *)
(***************************************************************************)
EXTENDS Integers, Sequences, FiniteSets, TLC

VARIABLES
    \* ---- deployment configuration (read-only after start) ----
    config,          \* K8S_CERN_EOS_AVAILABLE, JOB_HOSTPATH_MOUNTS, WORKFLOW_RUNTIME_USER_UID
    \* ---- container backend: one KubernetesJobManager at a time ----
    kpc,             \* "new" | "constructed" | "submit" | "returned" | "raised"
    mgr,             \* the fields of the instance (self.*)
    job,             \* self.job, the job object built by execute()
    attempt_number,  \* the retry decorator's attempt counter
    createCalls,     \* create_namespaced_job calls made by the current execute()
    rejections,      \* create calls of the current execute() answered with ApiException
    k8sJobs,         \* the job objects the orchestration API has accepted
    execResult,      \* what execute() gave its caller
    stopCall,        \* the last stop() call and what it did
    \* ---- scheduler backends ----
    cpc,             \* "idle" | "submitting" | "returned" | "raised" | "stopped"
    csub,            \* the submission in progress: attempts, transactions, result
    schedd,          \* the scheduler daemon: its queue and its next cluster id
    cstop,           \* the stop call and the actions it issued
    \* ---- detach: the forked submission ----
    dcall,           \* per call: the position of its two processes, its result
    pipes,           \* per call: the pipe's data and who holds its write end
    submissions      \* per call: forks made, invocations of the wrapped function

vars == <<config, kpc, mgr, job, attempt_number, createCalls, rejections, k8sJobs,
          execResult, stopCall, cpc, csub, schedd, cstop,
          dcall, pipes, submissions>>

k8sVars == <<kpc, mgr, job, attempt_number, createCalls, rejections, k8sJobs,
             execResult, stopCall>>
condorVars == <<cpc, csub, schedd, cstop>>
detachVars == <<dcall, pipes, submissions>>

(***************************************************************************)
(* Bounds of the model.                                                    *)
(***************************************************************************)
MaxHostPaths == 1     \* length of the configured JOB_HOSTPATH_MOUNTS list
MaxCvmfs == 2         \* length of the requested CVMFS list
MaxRestartCeiling == 3  \* largest configured MAX_JOB_RESTARTS

(***************************************************************************)
(* Python values.                                                          *)
(***************************************************************************)
PyNone == [t |-> "NoneType", v |-> ""]
PyStr(s) == [t |-> "str", v |-> s]
PyInt(n) == [t |-> "int", v |-> n]
PyBool(b) == [t |-> "bool", v |-> b]
PyObject(cls) == [t |-> cls, v |-> "instance"]

\* No call has ended yet.
NoResult == [kind |-> "none", value |-> PyNone]

\* bool(x): None, 0, False and "" are false; every other value is true.
Truthy(x) ==
    CASE x.t = "NoneType" -> FALSE
      [] x.t = "int" -> x.v # 0
      [] x.t = "bool" -> x.v
      [] x.t = "str" -> x.v # ""
      [] OTHER -> TRUE

Min(a, b) == IF a <= b THEN a ELSE b
Max(a, b) == IF a >= b THEN a ELSE b

\* All sequences over S of length at most n.
SeqsUpTo(S, n) == UNION {[1..k -> S] : k \in 0..n}

(***************************************************************************)
(* Configuration the container backend reads.                              *)
(***************************************************************************)
K8S_DEFAULT_NAMESPACE == "default"

\* reana_commons.config.CVMFS_REPOSITORIES: repository name -> mount name.
CVMFS_REPOSITORIES ==
    [n \in {"atlas.cern.ch", "cms.cern.ch"} |->
        IF n = "atlas.cern.ch" THEN "atlas" ELSE "cms"]

\* The names a request may ask for: the keys of the table and names that
\* are not keys.
CvmfsNames == DOMAIN CVMFS_REPOSITORIES \cup {"unknown.example.org"}

\* JOB_HOSTPATH_MOUNTS entries (name, path); one of them shares its name
\* with the networked-filesystem volume.
HostPathEntries == {<<"data", "/data">>, <<"eos", "/opt/eos">>}

K8S_CERN_EOS_MOUNT_CONFIGURATION ==
    [volume |-> [name |-> "eos", source |-> "hostPath:/var/eos"],
     volumeMounts |-> [name |-> "eos", mountPath |-> "/eos"]]

WORKFLOW_RUNTIME_USER_GID == 0

Configs ==
    [K8S_CERN_EOS_AVAILABLE : BOOLEAN,
     JOB_HOSTPATH_MOUNTS : SeqsUpTo(HostPathEntries, MaxHostPaths),
     WORKFLOW_RUNTIME_USER_UID : {1000, 33},
     MAX_JOB_RESTARTS : {0}]      \* not read by the container backend

\* The configurations of the scheduler backends: the attempt ceiling
\* reana_job_controller.variables.MAX_JOB_RESTARTS, whatever it is set to.
CondorConfigs ==
    [K8S_CERN_EOS_AVAILABLE : {FALSE},
     JOB_HOSTPATH_MOUNTS : {<<>>},
     WORKFLOW_RUNTIME_USER_UID : {1000},
     MAX_JOB_RESTARTS : 0..MaxRestartCeiling]

\* The run-as identities a caller may request (None = absent).
RequestedUids ==
    {PyNone} \cup {PyInt(n) : n \in {-1, 0, 99, 100, 101, 1000}}

(***************************************************************************)
(* KubernetesJobManager: identity policy and the job object builder.       *)
(***************************************************************************)
MAX_NUM_RESUBMISSIONS == 3
MAX_NUM_JOB_RESTARTS == 0

\* The mutated identity policy: the threshold itself is refused.
set_user_id_strict(kubernetes_uid, default_uid) ==
    IF Truthy(kubernetes_uid)
    THEN IF kubernetes_uid.v > 100 THEN kubernetes_uid.v ELSE default_uid
    ELSE default_uid

\* set_user_id: the value stored in self.kubernetes_uid.
set_user_id(kubernetes_uid, default_uid) ==
    IF Truthy(kubernetes_uid)
    THEN IF kubernetes_uid.v >= 100 THEN kubernetes_uid.v ELSE default_uid
    ELSE default_uid

NoSecurityContext == [present |-> FALSE, runAsGroup |-> 0, runAsUser |-> 0]

\* self.job as execute() first assigns it (lines 90-120).
JobSkeleton(backend_job_id) ==
    [kind |-> "Job",
     apiVersion |-> "batch/v1",
     metadata |-> [name |-> backend_job_id, namespace |-> K8S_DEFAULT_NAMESPACE],
     backoffLimit |-> MAX_NUM_JOB_RESTARTS,
     containers |-> << [name |-> "job", env |-> <<>>, volumeMounts |-> <<>>] >>,
     initContainers |-> <<>>,
     volumes |-> <<>>,
     restartPolicy |-> "Never",
     securityContext |-> NoSecurityContext]

\* REANAUserSecretsStore: the secret bundle of the caller, as environment
\* variables, as a volume and as the mount of that volume.
SecretEnvVars == << [name |-> "SECRET_TOKEN", value |-> "secretKeyRef"] >>
SecretsVolume == [name |-> "reana-secretsstore", source |-> "secret"]
SecretsVolumeMount == [name |-> "reana-secretsstore", mountPath |-> "/etc/reana/secrets"]

\* Lines 124-136: secrets into env, volumes and volumeMounts.
AddSecrets(j) ==
    [j EXCEPT !.containers[1].env = @ \o SecretEnvVars,
              !.volumes = Append(@, SecretsVolume),
              !.containers[1].volumeMounts = Append(@, SecretsVolumeMount)]

\* Lines 138-142: the caller's environment variables, in dict order.
AddEnvVars(j, env_vars) ==
    [j EXCEPT !.containers[1].env =
        @ \o [i \in 1..Len(env_vars) |->
                [name |-> env_vars[i][1], value |-> env_vars[i][2]]]]

\* The mutated add_volumes: the volume of a pair is not declared.
add_volumes_mounts_only(j, volumes) ==
    [j EXCEPT !.containers[1].volumeMounts =
        @ \o [i \in 1..Len(volumes) |-> volumes[i][1]]]

\* add_volumes: every (volumeMount, volume) pair is appended, in order.
add_volumes(j, volumes) ==
    [j EXCEPT !.containers[1].volumeMounts =
                  @ \o [i \in 1..Len(volumes) |-> volumes[i][1]],
              !.volumes = @ \o [i \in 1..Len(volumes) |-> volumes[i][2]]]

\* reana_commons.k8s.volumes.get_shared_volume(workflow_workspace).
get_shared_volume ==
    << [name |-> "reana-shared-volume", mountPath |-> "/var/reana"],
       [name |-> "reana-shared-volume", source |-> "cephfs"] >>

add_shared_volume(j, shared_file_system) ==
    IF shared_file_system THEN add_volumes(j, << get_shared_volume >>) ELSE j

add_eos_volume(j, eos_available) ==
    IF eos_available
    THEN add_volumes(j, << << K8S_CERN_EOS_MOUNT_CONFIGURATION.volumeMounts,
                              K8S_CERN_EOS_MOUNT_CONFIGURATION.volume >> >>)
    ELSE j

add_hostpath_volumes(j, hostpath_mounts) ==
    add_volumes(j,
        [i \in 1..Len(hostpath_mounts) |->
            << [name |-> hostpath_mounts[i][1], mountPath |-> hostpath_mounts[i][2]],
               [name |-> hostpath_mounts[i][1],
                source |-> "hostPath:" \o hostpath_mounts[i][2]] >>])

\* d[key] = value on a dict kept as a sequence of pairs: an existing key
\* keeps its position, a new key goes last.
DictSet(d, key, value) ==
    IF \E i \in 1..Len(d) : d[i][1] = key
    THEN [i \in 1..Len(d) |-> IF d[i][1] = key THEN <<key, value>> ELSE d[i]]
    ELSE Append(d, <<key, value>>)

\* Lines 149-154: repository -> requested name, for the names that are keys
\* of CVMFS_REPOSITORIES.
RECURSIVE cvmfs_map_from(_, _, _)
cvmfs_map_from(names, i, d) ==
    IF i > Len(names) THEN d
    ELSE cvmfs_map_from(names, i + 1,
            IF names[i] \in DOMAIN CVMFS_REPOSITORIES
            THEN DictSet(d, CVMFS_REPOSITORIES[names[i]], names[i])
            ELSE d)

\* reana_commons.k8s.volumes.get_k8s_cvmfs_volume(repository).
get_k8s_cvmfs_volume(repository) ==
    [name |-> repository \o "-cvmfs-volume",
     source |-> "pvc:csi-cvmfs-" \o repository \o "-pvc"]

\* The mutated CVMFS step: the membership test of line 151 is dropped and
\* a name that is no key is mounted under its own name.
RECURSIVE cvmfs_map_unfiltered(_, _, _)
cvmfs_map_unfiltered(names, i, d) ==
    IF i > Len(names) THEN d
    ELSE cvmfs_map_unfiltered(names, i + 1,
            DictSet(d,
                    IF names[i] \in DOMAIN CVMFS_REPOSITORIES
                    THEN CVMFS_REPOSITORIES[names[i]] ELSE names[i],
                    names[i]))

cvmfs_map_no_filter(cvmfs_mounts) ==
    cvmfs_map_unfiltered(cvmfs_mounts.names, 1, <<>>)

\* ast.literal_eval(self.cvmfs_mounts) walked by the loop of lines 150-154.
cvmfs_map(cvmfs_mounts) ==
    cvmfs_map_from(cvmfs_mounts.names, 1, <<>>)

\* Lines 148-164.
AddCvmfs(j, cvmfs_mounts) ==
    IF cvmfs_mounts.literal # "false"
    THEN LET m == cvmfs_map(cvmfs_mounts) IN
         [j EXCEPT !.containers[1].volumeMounts =
                       @ \o [i \in 1..Len(m) |->
                               [name |-> get_k8s_cvmfs_volume(m[i][1]).name,
                                mountPath |-> "/cvmfs/" \o m[i][2]]],
                   !.volumes =
                       @ \o [i \in 1..Len(m) |-> get_k8s_cvmfs_volume(m[i][1])]]
    ELSE j

\* Lines 166-169.
SetSecurityContext(j, kubernetes_uid) ==
    [j EXCEPT !.securityContext =
        [present |-> TRUE,
         runAsGroup |-> WORKFLOW_RUNTIME_USER_GID,
         runAsUser |-> kubernetes_uid]]

Krb5Volumes ==
    << [name |-> "krb5-cache", source |-> "emptyDir"],
       [name |-> "krb5-conf", source |-> "configMap"] >>
Krb5VolumeMounts ==
    << [name |-> "krb5-cache", mountPath |-> "/krb5_cache"],
       [name |-> "krb5-conf", mountPath |-> "/etc/krb5.conf"] >>

\* _add_krb5_init_container.
add_krb5_init_container(j, secrets_volume_mount) ==
    [j EXCEPT !.volumes = @ \o Krb5Volumes,
              !.containers[1].volumeMounts = @ \o Krb5VolumeMounts,
              !.containers[1].env =
                  Append(@, [name |-> "KRB5CCNAME", value |-> "/krb5_cache/krb5_reana"]),
              !.initContainers =
                  Append(@, [name |-> "krb5",
                             volumeMounts |-> <<secrets_volume_mount>> \o Krb5VolumeMounts])]

\* The mutated composition: the shared and networked mounts are added
\* before the host-path mounts.
BuildJobSharedFirst(backend_job_id, m, cfg) ==
    LET j1 == AddEnvVars(AddSecrets(JobSkeleton(backend_job_id)), m.env_vars)
        j2 == add_shared_volume(j1, m.shared_file_system)
        j3 == add_eos_volume(j2, cfg.K8S_CERN_EOS_AVAILABLE)
        j4 == add_hostpath_volumes(j3, cfg.JOB_HOSTPATH_MOUNTS)
        j5 == AddCvmfs(j4, m.cvmfs_mounts)
        j6 == SetSecurityContext(j5, m.kubernetes_uid)
    IN IF m.kerberos THEN add_krb5_init_container(j6, SecretsVolumeMount) ELSE j6

\* execute(), lines 89-172: the job object as it stands before _submit().
BuildJob(backend_job_id, m, cfg) ==
    LET j1 == AddEnvVars(AddSecrets(JobSkeleton(backend_job_id)), m.env_vars)
        j2 == add_hostpath_volumes(j1, cfg.JOB_HOSTPATH_MOUNTS)
        j3 == add_shared_volume(j2, m.shared_file_system)
        j4 == add_eos_volume(j3, cfg.K8S_CERN_EOS_AVAILABLE)
        j5 == AddCvmfs(j4, m.cvmfs_mounts)
        j6 == SetSecurityContext(j5, m.kubernetes_uid)
    IN IF m.kerberos THEN add_krb5_init_container(j6, SecretsVolumeMount) ELSE j6

(***************************************************************************)
(* Scheduler backends: submit() of the federated pool, under               *)
(* @retry(stop_max_attempt_number=MAX_JOB_RESTARTS), and                   *)
(* condor_instantiate_job() of the direct pool, with their stop calls.     *)
(***************************************************************************)
Digit(d) ==
    CASE d = 0 -> "0" [] d = 1 -> "1" [] d = 2 -> "2" [] d = 3 -> "3"
      [] d = 4 -> "4" [] d = 5 -> "5" [] d = 6 -> "6" [] d = 7 -> "7"
      [] d = 8 -> "8" [] d = 9 -> "9"

\* The decimal digits of a natural number.
RECURSIVE IntToStr(_)
IntToStr(n) == IF n < 10 THEN Digit(n) ELSE IntToStr(n \div 10) \o Digit(n % 10)

\* str(x) of an int.
py_str(x) == PyStr(IntToStr(x.v))

\* '%d' % x: the digits of an int; any other type is a TypeError.
percent_d(x) ==
    IF x.t = "int" THEN [ok |-> TRUE, text |-> IntToStr(x.v)]
    ELSE [ok |-> FALSE, text |-> ""]

\* The keys of the submit description, in the order execute() (lines
\* 156-172) and condor_instantiate_job() (lines 56-58) assign them.
FederatedSubmitKeys ==
    <<"executable", "arguments", "Output", "Error", "InitialDir",
      "+WantIOProxy", "environment", "on_exit_remove">>
DirectSubmitKeys == <<"executable", "arguments">>
SubmitKeys(variant) ==
    IF variant = "vc3" THEN FederatedSubmitKeys ELSE DirectSubmitKeys

NoSubmission ==
    [variant |-> "none", sub |-> <<>>, attempt_number |-> 0, transactions |-> 0,
     last_exc |-> 0, queue_before |-> {}, clusterid |-> 0, result |-> NoResult]
NoCondorStop == [flag |-> <<>>, result |-> "none", acts |-> <<>>]

\* The schedd a behaviour starts with: empty, or holding other jobs.
Schedds == {[queue |-> {}, next |-> 1], [queue |-> {3, 11}, next |-> 12]}

CondorIdle ==
    /\ cpc = "idle"
    /\ csub = NoSubmission
    /\ schedd = [queue |-> {}, next |-> 1]
    /\ cstop = NoCondorStop

\* One "with schedd.transaction() as txn: clusterid = sub.queue(txn)":
\* queue() may raise, the commit at the end of the with block may raise,
\* and only a committed transaction leaves its job in the queue. The
\* exception carries the number of the transaction that raised it.
TxnOutcomes == {"committed", "queue_raises", "commit_raises"}
transaction(outcome, sd, txn) ==
    [raised |-> outcome # "committed",
     exc |-> IF outcome = "committed" THEN 0 ELSE txn,
     clusterid |-> IF outcome = "committed" THEN sd.next ELSE 0,
     schedd |-> [queue |-> IF outcome = "committed"
                           THEN sd.queue \cup {sd.next} ELSE sd.queue,
                 next |-> IF outcome = "queue_raises" THEN sd.next ELSE sd.next + 1]]

(***************************************************************************)
(* KubernetesJobManager: construction, execute(), _submit(), stop().       *)
(***************************************************************************)
\* The job of another workflow, already known to the orchestration API.
OtherJob == SetSecurityContext(AddSecrets(JobSkeleton("uuid-0")), 1000)

NoStop == [style |-> "none", given |-> <<>>, result |-> "none",
           reason |-> "", deletes |-> <<>>]
NoJob == JobSkeleton("")
NoMgr == [cvmfs_mounts |-> [literal |-> "false", names |-> <<>>],
          shared_file_system |-> FALSE, kerberos |-> FALSE,
          env_vars |-> <<>>, requested_uid |-> PyNone, kubernetes_uid |-> 0]

\* The cvmfs_mounts argument: the string 'false' or the literal of a list.
CvmfsRequests ==
    {[literal |-> "false", names |-> <<>>]}
        \cup {[literal |-> "list", names |-> ns] : ns \in SeqsUpTo(CvmfsNames, MaxCvmfs)}

EnvVarRequests == {<<>>, << <<"A", "1">> >>}

K8sInit ==
    /\ config \in Configs
    /\ kpc = "new"
    /\ mgr = NoMgr
    /\ job = NoJob
    /\ attempt_number = 0
    /\ createCalls = 0
    /\ rejections = 0
    /\ k8sJobs = {OtherJob}
    /\ execResult = NoResult
    /\ stopCall = NoStop

\* __init__ (lines 43-84); requested_uid is kept for the record only.
Construct(cvmfs, shared, krb, env, uid) ==
    /\ kpc = "new"
    /\ mgr' = [cvmfs_mounts |-> cvmfs,
               shared_file_system |-> shared,
               kerberos |-> krb,
               env_vars |-> env,
               requested_uid |-> uid,
               kubernetes_uid |-> set_user_id(uid, config.WORKFLOW_RUNTIME_USER_UID)]
    /\ kpc' = "constructed"
    /\ UNCHANGED <<config, job, attempt_number, createCalls, rejections, k8sJobs,
                   execResult, stopCall, condorVars, detachVars>>

\* execute() up to the call of _submit(): uuid4() and the composition.
ExecuteBuild ==
    /\ kpc = "constructed"
    /\ job' = BuildJob("uuid-1", mgr, config)
    /\ attempt_number' = 1
    /\ createCalls' = 0
    /\ rejections' = 0
    /\ kpc' = "submit"
    /\ UNCHANGED <<config, mgr, k8sJobs, execResult, stopCall, condorVars, detachVars>>

\* The body of _submit for one answer of create_namespaced_job: the job's
\* name when the job was created; both except clauses log and fall off the
\* end of the function, which returns None.
submit_body(outcome, j) ==
    [raised |-> FALSE,
     value |-> IF outcome = "created" THEN PyStr(j.metadata.name) ELSE PyNone,
     exc |-> ""]

\* An off-by-one retry policy: one attempt more than the ceiling.
RetryDecisionOneMore(attempt, raised, stop_max_attempt_number) ==
    IF ~raised THEN "return"
    ELSE IF attempt > stop_max_attempt_number THEN "raise"
    ELSE "retry"

\* retrying.retry(stop_max_attempt_number = n): an attempt that returned is
\* returned; one that raised is repeated unless attempt_number >= n, and
\* then its exception is raised.
RetryDecision(attempt, raised, stop_max_attempt_number) ==
    IF ~raised THEN "return"
    ELSE IF attempt >= stop_max_attempt_number THEN "raise"
    ELSE "retry"

\* JobManager.execution_hook hands the backend id of execute() to the caller.
execution_hook(backend_job_id) == backend_job_id

CreateOutcomes == {"created", "ApiException", "Exception"}

\* One attempt of the decorated _submit() and what execute() does with it.
SubmitAttempt(outcome) ==
    /\ kpc = "submit"
    /\ createCalls' = createCalls + 1
    /\ rejections' = IF outcome = "ApiException" THEN rejections + 1 ELSE rejections
    /\ k8sJobs' = IF outcome = "created" THEN k8sJobs \cup {job} ELSE k8sJobs
    /\ LET a == submit_body(outcome, job)
           d == RetryDecision(attempt_number, a.raised, MAX_NUM_RESUBMISSIONS)
       IN CASE d = "return" ->
                 /\ kpc' = "returned"
                 /\ execResult' = [kind |-> "return", value |-> execution_hook(a.value)]
                 /\ UNCHANGED attempt_number
            [] d = "raise" ->
                 /\ kpc' = "raised"
                 /\ execResult' = [kind |-> "raise", value |-> PyObject(a.exc)]
                 /\ UNCHANGED attempt_number
            [] OTHER ->
                 /\ attempt_number' = attempt_number + 1
                 /\ UNCHANGED <<kpc, execResult>>
    /\ UNCHANGED <<config, mgr, job, stopCall, condorVars, detachVars>>

\* How Python binds the positional arguments of a call of
\* "def stop(backend_job_id, asynchronous=True)": on an instance the
\* instance itself is the first positional argument.
stop_bind(style, args) ==
    LET actual == IF style = "instance"
                  THEN <<PyObject("KubernetesJobManager")>> \o args ELSE args
    IN IF Len(actual) < 1 \/ Len(actual) > 2
       THEN [ok |-> FALSE, backend_job_id |-> PyNone, asynchronous |-> PyNone]
       ELSE [ok |-> TRUE,
             backend_job_id |-> actual[1],
             asynchronous |-> IF Len(actual) = 2 THEN actual[2] ELSE PyBool(TRUE)]

\* Line 201.
propagation_policy(asynchronous) ==
    IF Truthy(asynchronous) THEN "Background" ELSE "Foreground"

\* The jobs a delete call for `name` in `namespace` selects.
JobsNamed(name, namespace) ==
    {j \in k8sJobs : /\ name.t = "str"
                     /\ j.metadata.name = name.v
                     /\ j.metadata.namespace = namespace}

StopFlags == {<<>>, <<PyBool(TRUE)>>, <<PyBool(FALSE)>>}

\* stop(handle[, asynchronous]) with the handle execute() returned, called
\* on the instance or on the class; `answer` is the backend's answer to a
\* delete call that names an existing job.
Stop(style, flag, answer) ==
    /\ kpc = "returned"
    /\ execResult.value.t = "str"
    /\ LET b == stop_bind(style, <<execResult.value>> \o flag) IN
       IF ~b.ok
       THEN /\ stopCall' = [style |-> style, given |-> flag, result |-> "TypeError",
                            reason |-> "", deletes |-> <<>>]
            /\ UNCHANGED k8sJobs
       ELSE LET call == [name |-> b.backend_job_id,
                         namespace |-> K8S_DEFAULT_NAMESPACE,
                         propagation_policy |-> propagation_policy(b.asynchronous)]
                hit == JobsNamed(call.name, call.namespace)
            IN IF hit # {} /\ answer = "deleted"
               THEN /\ k8sJobs' = k8sJobs \ hit
                    /\ stopCall' = [style |-> style, given |-> flag,
                                    result |-> "returned", reason |-> "",
                                    deletes |-> <<call>>]
               ELSE /\ UNCHANGED k8sJobs
                    /\ stopCall' = [style |-> style, given |-> flag,
                                    result |-> "ComputingBackendSubmissionError",
                                    reason |-> IF hit = {} THEN "Not Found" ELSE "Forbidden",
                                    deletes |-> <<call>>]
    /\ kpc' = "stopped"
    /\ UNCHANGED <<config, mgr, job, attempt_number, createCalls, rejections,
                   execResult, condorVars, detachVars>>

(***************************************************************************)
(* detach: the wrapped function runs in a forked child, the caller reads   *)
(* the child's result from a pipe.  A call has two processes, "orig" (the  *)
(* caller's thread) and "forked"; each follows the branch that the value   *)
(* fork() returned to it selects.  Process 0 is the parent process, the    *)
(* child forked by call i is process i.                                    *)
(***************************************************************************)
MaxCalls == 2     \* calls of a detached function in flight at once
Calls == 1..MaxCalls
Procs == {"orig", "forked"}

NoCall ==
    [pc |-> [orig |-> "start", forked |-> "none"],
     pid |-> [orig |-> 0, forked |-> 0],
     dropped |-> FALSE,   \* the child runs under the identity of $USER
     buffer |-> "",       \* the child's file object: written, not yet flushed
     f |-> "none",        \* how the wrapped function ended: "returned" | "raised"
     exit_status |-> PyNone,  \* the status the child process ended with
     ret |-> PyNone]      \* what the call returned to its caller
NoPipe == [data |-> "", writers |-> {}]
NoSubmissions == [attempts |-> 0, forks |-> 0, invoked |-> 0, finished |-> 0, by |-> {}]

DetachIdle ==
    /\ dcall = [i \in Calls |-> NoCall]
    /\ pipes = [i \in Calls |-> NoPipe]
    /\ submissions = [i \in Calls |-> NoSubmissions]

\* "if pid:" (line 37): the process fork() gave a pid runs the parent
\* branch, the one it gave 0 runs the child branch.
Branch(pid) == IF pid # 0 THEN "parent" ELSE "child"

\* The operating-system process a process of call i is.
Holder(i, who) == IF who = "orig" THEN 0 ELSE i

\* A read that does not wait for the end of the file.
AtEOFNonBlocking(writers) == TRUE

\* r.read() returns at end of file: no process holds the write end open.
AtEOF(writers) == writers = {}

\* A parent that takes an empty result for a failure of the child and
\* raises.
fork_parent_checked(data) == [raised |-> data = "", value |-> PyStr(data)]

\* The parent branch once the pipe is at end of file (lines 40-41):
\* everything the pipe held is returned, whatever it is.
fork_parent(data) == [raised |-> FALSE, value |-> PyStr(data)]

InitK8s == K8sInit /\ CondorIdle /\ DetachIdle

\* The container backend from construction to the end of execute(), over
\* every request and configuration within the bounds.
NextK8s ==
    \/ \E cvmfs \in CvmfsRequests, shared \in BOOLEAN, krb \in BOOLEAN,
          env \in EnvVarRequests, uid \in RequestedUids :
         Construct(cvmfs, shared, krb, env, uid)
    \/ ExecuteBuild
    \/ \E outcome \in CreateOutcomes : SubmitAttempt(outcome)

SpecK8s == InitK8s /\ [][NextK8s]_vars

\* The container backend with stop(): stop() reads only the handle, so the
\* requests are the ones without CVMFS mounts and environment variables.
NextK8sStop ==
    \/ \E shared \in BOOLEAN, krb \in BOOLEAN, uid \in RequestedUids :
         Construct([literal |-> "false", names |-> <<>>], shared, krb, <<>>, uid)
    \/ ExecuteBuild
    \/ \E outcome \in CreateOutcomes : SubmitAttempt(outcome)
    \/ \E style \in {"instance", "class"}, flag \in StopFlags,
          answer \in {"deleted", "ApiException"} : Stop(style, flag, answer)

SpecK8sStop == InitK8s /\ [][NextK8sStop]_vars

(***************************************************************************)
(* Properties of the container backend.                                    *)
(***************************************************************************)
ExecuteDone == kpc \in {"returned", "raised", "stopped"}
JobBuilt == kpc \in {"submit", "returned", "raised", "stopped"}
JobAccepted == job \in k8sJobs
MainContainer == job.containers[1]

\* C1: when every create-job call of an execute() is answered with an
\* ApiException or accepted, execute() ends after min(rejections + 1, 3)
\* create-job calls, and when none was accepted it made 3 calls and raised.
C1_RetriesUpToCeiling ==
    (/\ ExecuteDone
     /\ createCalls = rejections + (IF JobAccepted THEN 1 ELSE 0))
    => /\ createCalls = Min(rejections + 1, MAX_NUM_RESUBMISSIONS)
       /\ ~JobAccepted =>
            /\ createCalls = MAX_NUM_RESUBMISSIONS
            /\ execResult.kind = "raise"

\* C2: execute() either returns the name of the job the backend accepted,
\* or raises with no job accepted; it never returns when no job was accepted.
C2_HandleOrError ==
    ExecuteDone =>
        \/ /\ execResult.kind = "return"
           /\ JobAccepted
           /\ execResult.value = PyStr(job.metadata.name)
        \/ /\ execResult.kind = "raise"
           /\ ~JobAccepted

\* C4: a stop(handle, asynchronous) called on a job manager instance issues
\* exactly one delete call, for the job named by the handle in the default
\* namespace, Foreground when asynchronous is false and Background when it
\* is true or omitted, and ends by returning or by raising the
\* computing-backend submission error with the backend's reason.
C4_StopOnInstance ==
    (kpc = "stopped" /\ stopCall.style = "instance") =>
        /\ Len(stopCall.deletes) = 1
        /\ stopCall.deletes[1].name = execResult.value
        /\ stopCall.deletes[1].namespace = K8S_DEFAULT_NAMESPACE
        /\ stopCall.deletes[1].propagation_policy =
              (IF stopCall.given = <<PyBool(FALSE)>> THEN "Foreground" ELSE "Background")
        /\ stopCall.result \in {"returned", "ComputingBackendSubmissionError"}
        /\ stopCall.result = "ComputingBackendSubmissionError" => stopCall.reason # ""

\* The effective identity of a requested identity u: u when it is present
\* and at least 100, the configured default otherwise.
EffectiveUid(u) ==
    IF u.t = "int"
    THEN (IF u.v < 100 THEN config.WORKFLOW_RUNTIME_USER_UID ELSE u.v)
    ELSE config.WORKFLOW_RUNTIME_USER_UID

\* C6: the identity set_user_id stores is the requested one when it is
\* present and >= 100 and the configured default otherwise; every job spec
\* built by execute() runs as that user and as the configured group, and no
\* identity below 100 other than the default is ever runAsUser.
C6_RunAsIdentity ==
    /\ kpc # "new" => mgr.kubernetes_uid = EffectiveUid(mgr.requested_uid)
    /\ JobBuilt =>
        /\ job.securityContext.present
        /\ job.securityContext.runAsUser = EffectiveUid(mgr.requested_uid)
        /\ job.securityContext.runAsGroup = WORKFLOW_RUNTIME_USER_GID
        /\ job.securityContext.runAsUser < 100 =>
              job.securityContext.runAsUser = config.WORKFLOW_RUNTIME_USER_UID

C6_Witness ==
    /\ kpc = "submit"
    /\ mgr.requested_uid = PyInt(100)
    /\ config.WORKFLOW_RUNTIME_USER_UID = 33
    /\ job.securityContext.runAsUser = 100

\* The names a request asks for.
RequestedNames == {mgr.cvmfs_mounts.names[i] : i \in 1..Len(mgr.cvmfs_mounts.names)}
CountIn(seq, x) == Cardinality({i \in 1..Len(seq) : seq[i] = x})
CountMountPath(path) ==
    Cardinality({i \in 1..Len(MainContainer.volumeMounts) :
                    MainContainer.volumeMounts[i].mountPath = path})
\* Volumes (and mounts) that a job spec holds apart from the CVMFS ones.
NonCvmfsEntries ==
    1 + Len(config.JOB_HOSTPATH_MOUNTS)
      + (IF mgr.shared_file_system THEN 1 ELSE 0)
      + (IF config.K8S_CERN_EOS_AVAILABLE THEN 1 ELSE 0)
      + (IF mgr.kerberos THEN 2 ELSE 0)

\* C7: the job spec holds one /cvmfs/<name> mount, and the volume of that
\* mount, exactly for the requested names that are keys of
\* CVMFS_REPOSITORIES; other names add neither, and execute() builds the
\* spec (no error) whatever names are requested.
C7_CvmfsIffKnown ==
    /\ kpc = "constructed" => ENABLED ExecuteBuild
    /\ JobBuilt =>
        /\ \A n \in CvmfsNames :
              LET want == IF n \in RequestedNames /\ n \in DOMAIN CVMFS_REPOSITORIES
                          THEN 1 ELSE 0
              IN /\ CountMountPath("/cvmfs/" \o n) = want
                 /\ n \in DOMAIN CVMFS_REPOSITORIES =>
                      /\ CountIn(job.volumes,
                                 get_k8s_cvmfs_volume(CVMFS_REPOSITORIES[n])) = want
                      /\ \A i \in 1..Len(MainContainer.volumeMounts) :
                            MainContainer.volumeMounts[i].mountPath = "/cvmfs/" \o n =>
                                MainContainer.volumeMounts[i].name =
                                    get_k8s_cvmfs_volume(CVMFS_REPOSITORIES[n]).name
        /\ Len(job.volumes) =
              NonCvmfsEntries + Cardinality(RequestedNames \cap DOMAIN CVMFS_REPOSITORIES)
        /\ Len(MainContainer.volumeMounts) = Len(job.volumes)

C7_Witness ==
    /\ kpc = "submit"
    /\ mgr.cvmfs_mounts.names = <<"unknown.example.org", "cms.cern.ch">>
    /\ CountMountPath("/cvmfs/cms.cern.ch") = 1
    /\ CountMountPath("/cvmfs/unknown.example.org") = 0

\* C8: the submitted job spec has exactly one container, and its
\* volumeMounts and the pod's volumes have the same length and the same
\* name at every position.
C8_MountsMatchVolumes ==
    JobBuilt =>
        /\ Len(job.containers) = 1
        /\ Len(MainContainer.volumeMounts) = Len(job.volumes)
        /\ \A i \in 1..Len(job.volumes) :
              MainContainer.volumeMounts[i].name = job.volumes[i].name

C8_Witness ==
    /\ kpc = "returned"
    /\ JobAccepted
    /\ mgr.kerberos /\ mgr.shared_file_system /\ config.K8S_CERN_EOS_AVAILABLE
    /\ Len(config.JOB_HOSTPATH_MOUNTS) = 1
    /\ Len(mgr.cvmfs_mounts.names) = 2
    /\ Len(job.volumes) = 8

\* The conditionally added volumes (and their mounts), as sequences.
HostPathVolumes ==
    [i \in 1..Len(config.JOB_HOSTPATH_MOUNTS) |->
        [name |-> config.JOB_HOSTPATH_MOUNTS[i][1],
         source |-> "hostPath:" \o config.JOB_HOSTPATH_MOUNTS[i][2]]]
HostPathVolumeMounts ==
    [i \in 1..Len(config.JOB_HOSTPATH_MOUNTS) |->
        [name |-> config.JOB_HOSTPATH_MOUNTS[i][1],
         mountPath |-> config.JOB_HOSTPATH_MOUNTS[i][2]]]
SharedVolumes == IF mgr.shared_file_system THEN <<get_shared_volume[2]>> ELSE <<>>
SharedVolumeMounts == IF mgr.shared_file_system THEN <<get_shared_volume[1]>> ELSE <<>>
EosVolumes ==
    IF config.K8S_CERN_EOS_AVAILABLE
    THEN <<K8S_CERN_EOS_MOUNT_CONFIGURATION.volume>> ELSE <<>>
EosVolumeMounts ==
    IF config.K8S_CERN_EOS_AVAILABLE
    THEN <<K8S_CERN_EOS_MOUNT_CONFIGURATION.volumeMounts>> ELSE <<>>
CvmfsVolumeSet ==
    {get_k8s_cvmfs_volume(CVMFS_REPOSITORIES[n]) : n \in DOMAIN CVMFS_REPOSITORIES}
CvmfsMountPaths == {"/cvmfs/" \o n : n \in CvmfsNames}

\* volumes and volumeMounts begin with `vols` and `mnts`, and what follows
\* are the CVMFS entries (then, with kerberos, the two krb5 entries).
StartsWithThenCvmfs(vols, mnts) ==
    /\ Len(job.volumes) >= Len(vols)
    /\ SubSeq(job.volumes, 1, Len(vols)) = vols
    /\ Len(MainContainer.volumeMounts) >= Len(mnts)
    /\ SubSeq(MainContainer.volumeMounts, 1, Len(mnts)) = mnts
    /\ LET last == Len(job.volumes) - (IF mgr.kerberos THEN 2 ELSE 0) IN
       /\ \A i \in (Len(vols) + 1)..last : job.volumes[i] \in CvmfsVolumeSet
       /\ \A i \in (Len(mnts) + 1)..last :
             MainContainer.volumeMounts[i].mountPath \in CvmfsMountPaths

\* C9 as the claim states it: after the secrets volume come the shared
\* mount, the networked mount, the host-path mounts and the CVMFS mounts.
C9_OrderSharedEosHostpathCvmfs ==
    JobBuilt =>
        StartsWithThenCvmfs(
            <<SecretsVolume>> \o SharedVolumes \o EosVolumes \o HostPathVolumes,
            <<SecretsVolumeMount>> \o SharedVolumeMounts \o EosVolumeMounts
                \o HostPathVolumeMounts)

\* C9, amended: after the secrets volume come the host-path mounts, then
\* the shared-filesystem mount, then the networked-filesystem mount, then
\* the CVMFS mounts; of two additions with one name the later one in this
\* order is the later entry.
C9_OrderHostpathSharedEosCvmfs ==
    JobBuilt =>
        StartsWithThenCvmfs(
            <<SecretsVolume>> \o HostPathVolumes \o SharedVolumes \o EosVolumes,
            <<SecretsVolumeMount>> \o HostPathVolumeMounts \o SharedVolumeMounts
                \o EosVolumeMounts)

C9_Witness ==
    /\ kpc = "submit"
    /\ config.K8S_CERN_EOS_AVAILABLE
    /\ config.JOB_HOSTPATH_MOUNTS = << <<"eos", "/opt/eos">> >>
    /\ mgr.shared_file_system
    /\ mgr.cvmfs_mounts.names = <<"cms.cern.ch", "atlas.cern.ch">>
    /\ job.volumes[2].source = "hostPath:/opt/eos"
    /\ job.volumes[3].name = "reana-shared-volume"
    /\ job.volumes[4] = K8S_CERN_EOS_MOUNT_CONFIGURATION.volume
    /\ job.volumes[5].name = "cms-cvmfs-volume"

(***************************************************************************)
(* Scheduler backends: the operations.                                     *)
(***************************************************************************)
K8sIdle ==
    /\ kpc = "idle"
    /\ mgr = NoMgr
    /\ job = NoJob
    /\ attempt_number = 0
    /\ createCalls = 0
    /\ rejections = 0
    /\ k8sJobs = {}
    /\ execResult = NoResult
    /\ stopCall = NoStop

InitCondor ==
    /\ config \in CondorConfigs
    /\ K8sIdle
    /\ cpc = "idle"
    /\ csub = NoSubmission
    /\ schedd \in Schedds
    /\ cstop = NoCondorStop
    /\ DetachIdle

\* The start of HTCondorJobManagerVC3.execute() ("vc3": lines 154-173, up
\* to the call of submit) or of condor_instantiate_job() ("direct": lines
\* 55-58).
CondorExecute(variant) ==
    /\ cpc = "idle"
    /\ csub' = [NoSubmission EXCEPT !.variant = variant,
                                    !.sub = SubmitKeys(variant),
                                    !.attempt_number = 1,
                                    !.queue_before = schedd.queue]
    /\ cpc' = "submitting"
    /\ UNCHANGED <<config, schedd, cstop, k8sVars, detachVars>>

\* What follows an attempt: submit() is retried by its decorator,
\* condor_instantiate_job() has none.
AfterTransaction(variant, attempt, raised, max_job_restarts) ==
    IF variant = "vc3" THEN RetryDecision(attempt, raised, max_job_restarts)
    ELSE IF raised THEN "raise" ELSE "return"

\* The handle given to the caller: str(clusterid) by the federated pool's
\* execute(), clusterid itself by condor_instantiate_job().
CondorHandle(variant, clusterid) ==
    IF variant = "vc3" THEN execution_hook(py_str(PyInt(clusterid)))
    ELSE PyInt(clusterid)

\* One submission transaction and what the caller of it does next.
CondorTransaction(outcome) ==
    /\ cpc = "submitting"
    /\ LET n == csub.transactions + 1
           t == transaction(outcome, schedd, n)
           d == AfterTransaction(csub.variant, csub.attempt_number, t.raised,
                                 config.MAX_JOB_RESTARTS)
       IN /\ schedd' = t.schedd
          /\ csub' = [csub EXCEPT
                 !.transactions = n,
                 !.last_exc = IF t.raised THEN t.exc ELSE @,
                 !.clusterid = t.clusterid,
                 !.attempt_number = IF d = "retry" THEN @ + 1 ELSE @,
                 !.result =
                     CASE d = "return" ->
                            [kind |-> "return",
                             value |-> CondorHandle(csub.variant, t.clusterid)]
                       [] d = "raise" ->
                            [kind |-> "raise", value |-> PyInt(t.exc)]
                       [] OTHER -> @]
          /\ cpc' = CASE d = "return" -> "returned"
                      [] d = "raise" -> "raised"
                      [] OTHER -> "submitting"
    /\ UNCHANGED <<config, cstop, k8sVars, detachVars>>

\* The ClassAd attribute the stop calls filter on (names are
\* case-insensitive: 'ClusterId' in the federated pool, 'ClusterID' in the
\* direct pool).
ClusterIdAttr(variant) == IF variant = "vc3" THEN "ClusterId" ELSE "ClusterID"

\* stop(handle[, asynchronous]) with the handle the submission returned:
\* HTCondorJobManagerVC3.stop or condor_delete_job.
CondorStop(flag) ==
    /\ cpc = "returned"
    /\ LET f == percent_d(csub.result.value) IN
       IF ~f.ok
       THEN /\ cstop' = [flag |-> flag, result |-> "TypeError", acts |-> <<>>]
            /\ UNCHANGED schedd
       ELSE /\ cstop' = [flag |-> flag, result |-> "returned",
                         acts |-> << [action |-> "Remove",
                                      attr |-> ClusterIdAttr(csub.variant),
                                      value |-> f.text] >>]
            /\ schedd' = [schedd EXCEPT
                            !.queue = {c \in @ : IntToStr(c) # f.text}]
    /\ cpc' = "stopped"
    /\ UNCHANGED <<config, csub, k8sVars, detachVars>>

NextCondor ==
    \/ \E variant \in {"vc3", "direct"} : CondorExecute(variant)
    \/ \E outcome \in TxnOutcomes : CondorTransaction(outcome)
    \/ \E flag \in StopFlags : CondorStop(flag)

SpecCondor == InitCondor /\ [][NextCondor]_vars

(***************************************************************************)
(* Properties of the scheduler backends.                                   *)
(***************************************************************************)
\* The attempts @retry(stop_max_attempt_number=n) allows: the first
\* attempt is always made.
CeilingAttempts == Max(1, config.MAX_JOB_RESTARTS)

\* A submission that made at most `ceiling` transactions, every one of
\* them but a committed last one raising and leaving nothing queued, and
\* that ended with the last exception when the ceiling was reached.
RetriedUpTo(ceiling) ==
    /\ cpc = "submitting" =>
         /\ csub.transactions < ceiling
         /\ csub.last_exc = csub.transactions
         /\ schedd.queue = csub.queue_before
    /\ cpc = "raised" =>
         /\ csub.transactions = ceiling
         /\ csub.result = [kind |-> "raise", value |-> PyInt(csub.transactions)]
         /\ schedd.queue = csub.queue_before
    /\ cpc = "returned" =>
         /\ csub.transactions <= ceiling
         /\ csub.last_exc = csub.transactions - 1
         /\ csub.result.kind = "return"
         /\ csub.clusterid \notin csub.queue_before
         /\ schedd.queue = csub.queue_before \cup {csub.clusterid}

\* C3 as the claim states it: in both scheduler variants the transaction
\* is repeated until it returns or the attempt ceiling is reached, then the
\* last exception propagates, and a transaction that raised queues nothing.
C3_BothVariantsRetry == RetriedUpTo(CeilingAttempts)

\* C3, amended: the federated pool's submit() repeats the transaction up to
\* the ceiling (at least one attempt) and then lets the last exception
\* propagate; the direct pool's condor_instantiate_job() makes exactly one
\* attempt, whose exception propagates; a transaction that raised leaves no
\* job queued in either.
C3_RetryOnlyFederated ==
    RetriedUpTo(IF csub.variant = "vc3" THEN CeilingAttempts ELSE 1)

C3_Witness ==
    /\ cpc = "raised"
    /\ csub.variant = "vc3"
    /\ config.MAX_JOB_RESTARTS = 3
    /\ csub.transactions = 3
    /\ csub.result.value = PyInt(3)
    /\ schedd.queue = {3, 11}
    /\ schedd.next > 12

\* C5: stop(handle) with the handle of a submission issues exactly one
\* remove action, filtered on the cluster id the submission created,
\* whatever the asynchronous flag.
C5_StopRemovesCluster ==
    cpc = "stopped" =>
        /\ cstop.result = "returned"
        /\ Len(cstop.acts) = 1
        /\ cstop.acts[1].action = "Remove"
        /\ cstop.acts[1].attr \in {"ClusterId", "ClusterID"}
        /\ cstop.acts[1].value = IntToStr(csub.clusterid)
        /\ csub.clusterid \notin schedd.queue

(***************************************************************************)
(* execute() when a statement of the composition raises.                   *)
(***************************************************************************)
\* An exception that is logged and dropped, as the except clauses of
\* _submit do.
compose_error_logged(exc) == [propagates |-> FALSE, exc |-> exc]

\* Neither execute() has a try statement around its composition (lines
\* 89-172; lines 156-172): the statement that raises ends the call, and
\* the exception is the caller's.
compose_error(exc) == [propagates |-> TRUE, exc |-> exc]

\* The statements of KubernetesJobManager.execute() that call out of the
\* function and may raise: the secret lookup (lines 122-134), the
\* host-path list (line 144), the shared volume (line 145), the CVMFS
\* volumes (lines 156-157) and the kerberos sidecar (lines 253-283).
CompositionSteps == {"secrets", "hostpath", "shared", "cvmfs", "krb5"}

\* Whether execute() reaches the calls of a step for the manager m.
StepRuns(step, m) ==
    CASE step = "shared" -> m.shared_file_system
      [] step = "cvmfs" -> /\ m.cvmfs_mounts.literal # "false"
                           /\ cvmfs_map(m.cvmfs_mounts) # <<>>
      [] step = "krb5" -> m.kerberos
      [] OTHER -> TRUE

StepException(step) ==
    CASE step = "secrets" -> "ApiException"
      [] step = "hostpath" -> "KeyError"
      [] step = "shared" -> "ValueError"
      [] step = "cvmfs" -> "TypeError"
      [] OTHER -> "KeyError"

\* self.job as it stands when the first call of a step raises: what the
\* statements before it have added.
JobBefore(step, backend_job_id, m, cfg) ==
    LET j0 == JobSkeleton(backend_job_id)
        j1 == AddEnvVars(AddSecrets(j0), m.env_vars)
        j2 == add_hostpath_volumes(j1, cfg.JOB_HOSTPATH_MOUNTS)
        j3 == add_shared_volume(j2, m.shared_file_system)
        j4 == add_eos_volume(j3, cfg.K8S_CERN_EOS_AVAILABLE)
        j5 == AddCvmfs(j4, m.cvmfs_mounts)
        j6 == SetSecurityContext(j5, m.kubernetes_uid)
    IN CASE step = "secrets" -> j0
         [] step = "hostpath" -> j1
         [] step = "shared" -> j2
         [] step = "cvmfs" -> j4
         [] OTHER -> j6

\* KubernetesJobManager.execute() in which a step of the composition
\* raises.
ExecuteBuildRaises(step) ==
    /\ kpc = "constructed"
    /\ StepRuns(step, mgr)
    /\ job' = JobBefore(step, "uuid-1", mgr, config)
    /\ createCalls' = 0
    /\ rejections' = 0
    /\ LET e == compose_error(StepException(step)) IN
       IF e.propagates
       THEN /\ kpc' = "raised"
            /\ execResult' = [kind |-> "raise", value |-> PyObject(e.exc)]
            /\ UNCHANGED attempt_number
       ELSE /\ kpc' = "submit"
            /\ attempt_number' = 1
            /\ UNCHANGED execResult
    /\ UNCHANGED <<config, mgr, k8sJobs, stopCall, condorVars, detachVars>>

\* The cmd a federated-pool manager is constructed with: a string, or a
\* list as the docstring of __init__ types it (lines 121-122, 139).
CondorCmds == {PyStr("echo hi"), PyObject("list")}

\* re.sub(r'"', '\\"', self.cmd) (line 162) raises TypeError unless cmd
\* is a string.
re_sub_raises(cmd) == cmd.t # "str"

\* HTCondorJobManagerVC3.execute() in which the arguments string (lines
\* 161-162) raises: sub holds the executable only.
CondorExecuteRaises(cmd) ==
    /\ cpc = "idle"
    /\ re_sub_raises(cmd)
    /\ LET e == compose_error("TypeError") IN
       /\ csub' = [NoSubmission EXCEPT
                      !.variant = "vc3",
                      !.sub = <<"executable">>,
                      !.queue_before = schedd.queue,
                      !.attempt_number = IF e.propagates THEN 0 ELSE 1,
                      !.result = IF e.propagates
                                 THEN [kind |-> "raise", value |-> PyObject(e.exc)]
                                 ELSE @]
       /\ cpc' = IF e.propagates THEN "raised" ELSE "submitting"
    /\ UNCHANGED <<config, schedd, cstop, k8sVars, detachVars>>

\* The requests of the composition study: with and without each
\* conditional step.
ComposeCvmfsRequests ==
    {[literal |-> "false", names |-> <<>>],
     [literal |-> "list", names |-> <<"cms.cern.ch">>],
     [literal |-> "list", names |-> <<"unknown.example.org">>]}

\* execute() of the container backend and of the federated pool, each
\* with its composition succeeding or raising, side by side.
NextCompose ==
    \/ \E cvmfs \in ComposeCvmfsRequests, shared \in BOOLEAN, krb \in BOOLEAN :
         Construct(cvmfs, shared, krb, <<>>, PyNone)
    \/ ExecuteBuild
    \/ \E step \in CompositionSteps : ExecuteBuildRaises(step)
    \/ \E outcome \in CreateOutcomes : SubmitAttempt(outcome)
    \/ CondorExecute("vc3")
    \/ \E cmd \in CondorCmds : CondorExecuteRaises(cmd)
    \/ \E outcome \in TxnOutcomes : CondorTransaction(outcome)

SpecCompose == InitK8s /\ [][NextCompose]_vars

\* execute() of the container backend has begun and self.job is not the
\* complete job object of the request.
K8sCompositionIncomplete ==
    /\ kpc \notin {"new", "constructed"}
    /\ job # BuildJob("uuid-1", mgr, config)

\* execute() of the federated pool has begun and the submit description
\* lacks keys.
CondorCompositionIncomplete ==
    /\ cpc # "idle"
    /\ csub.sub # FederatedSubmitKeys

\* C11: in execute() of the container backend and of the federated pool the
\* first backend call (create-job call, scheduler transaction) is made only
\* with the composition complete; when a step of the composition raises, no
\* backend call is made, nothing is registered with the backend, and
\* execute() ends by raising that error to its caller.
C11_ComposedBeforeBackendCall ==
    /\ createCalls > 0 => ~K8sCompositionIncomplete
    /\ csub.transactions > 0 => ~CondorCompositionIncomplete
    /\ K8sCompositionIncomplete =>
          /\ createCalls = 0
          /\ k8sJobs = {OtherJob}
          /\ kpc = "raised"
          /\ execResult.kind = "raise"
          /\ execResult.value.t \in {StepException(st) : st \in CompositionSteps}
    /\ CondorCompositionIncomplete =>
          /\ csub.transactions = 0
          /\ schedd = [queue |-> {}, next |-> 1]
          /\ cpc = "raised"
          /\ csub.result = [kind |-> "raise", value |-> PyObject("TypeError")]

C11_Witness ==
    /\ kpc = "raised"
    /\ mgr.kerberos /\ mgr.shared_file_system
    /\ execResult.value = PyObject("KeyError")
    /\ job.securityContext.present
    /\ Len(job.initContainers) = 0
    /\ createCalls = 0
    /\ cpc = "raised"
    /\ csub.sub = <<"executable">>
    /\ csub.transactions = 0

(***************************************************************************)
(* detach: the steps of a call.                                            *)
(***************************************************************************)
\* The ceiling of a retry wrapper around the detached function (line 57)
\* is MAX_JOB_RESTARTS: the smallest and the largest one.
InitDetach ==
    /\ config \in {c \in CondorConfigs : c.MAX_JOB_RESTARTS \in {0, MaxRestartCeiling}}
    /\ K8sIdle
    /\ CondorIdle
    /\ DetachIdle

\* What the wrapped function returns in the child of call i: a cluster id.
SubmissionResult(i) == PyInt(40 + i)

\* An attempt of the retry wrapper enters fork(); r, w = os.pipe() (line
\* 35): a new pipe, whose write end the parent process holds.
DPipe(i) ==
    /\ dcall[i].pc.orig = "start"
    /\ dcall' = [dcall EXCEPT ![i].pc.orig = "piped"]
    /\ pipes' = [pipes EXCEPT ![i] = [data |-> "", writers |-> {0}]]
    /\ submissions' = [submissions EXCEPT ![i].attempts = @ + 1]
    /\ UNCHANGED <<config, k8sVars, condorVars>>

\* pid = os.fork() (line 36): the child is a copy of the parent process and
\* holds every write end the parent holds at that moment.
DFork(i) ==
    /\ dcall[i].pc.orig = "piped"
    /\ dcall' = [dcall EXCEPT ![i].pc = [orig |-> "forked", forked |-> "forked"],
                              ![i].pid = [orig |-> 100 + i, forked |-> 0]]
    /\ pipes' = [k \in Calls |->
                   IF 0 \in pipes[k].writers
                   THEN [pipes[k] EXCEPT !.writers = @ \cup {i}]
                   ELSE pipes[k]]
    /\ submissions' = [submissions EXCEPT ![i].forks = @ + 1]
    /\ UNCHANGED <<config, k8sVars, condorVars>>

\* os.close(w) (line 38).
PCloseW(i, who) ==
    /\ dcall[i].pc[who] = "forked"
    /\ Branch(dcall[i].pid[who]) = "parent"
    /\ dcall' = [dcall EXCEPT ![i].pc[who] = "p_reading"]
    /\ pipes' = [pipes EXCEPT ![i].writers = @ \ {Holder(i, who)}]
    /\ UNCHANGED <<submissions, config, k8sVars, condorVars>>

\* r = os.fdopen(r); fout = r.read(); return fout (lines 39-41), and what
\* the retry wrapper (line 57) does with the end of the attempt: it hands
\* the value to the caller, raises, or calls fork() again.
PRead(i, who) ==
    /\ dcall[i].pc[who] = "p_reading"
    /\ AtEOF(pipes[i].writers)
    /\ LET a == fork_parent(pipes[i].data)
           d == RetryDecision(submissions[i].attempts, a.raised,
                              config.MAX_JOB_RESTARTS)
       IN dcall' = [dcall EXCEPT
                       ![i].pc[who] = CASE d = "return" -> "p_returned"
                                        [] d = "raise" -> "p_raised"
                                        [] OTHER -> "start",
                       ![i].ret = IF d = "return" THEN a.value ELSE @]
    /\ UNCHANGED <<pipes, submissions, config, k8sVars, condorVars>>

\* os.close(r); w = os.fdopen(w, 'w') (lines 44-45).
CPrepare(i, who) ==
    /\ dcall[i].pc[who] = "forked"
    /\ Branch(dcall[i].pid[who]) = "child"
    /\ dcall' = [dcall EXCEPT ![i].pc[who] = "c_prepared"]
    /\ UNCHANGED <<pipes, submissions, config, k8sVars, condorVars>>

\* user_id = pwd.getpwnam(os.getenv('USER')).pw_uid; os.setuid(user_id)
\* (lines 47-48): USER may be unset or name no user, setuid may be refused.
DropOutcomes == {"ok", "getpwnam_raises", "setuid_raises"}
CDropPrivileges(i, who, outcome) ==
    /\ dcall[i].pc[who] = "c_prepared"
    /\ dcall' = [dcall EXCEPT ![i].pc[who] = IF outcome = "ok" THEN "c_dropped"
                                             ELSE "c_failed",
                              ![i].dropped = (outcome = "ok")]
    /\ UNCHANGED <<pipes, submissions, config, k8sVars, condorVars>>

\* out = f(*args, **kwargs) (line 49), entered ...
CCallBegin(i, who) ==
    /\ dcall[i].pc[who] = "c_dropped"
    /\ dcall' = [dcall EXCEPT ![i].pc[who] = "c_in_f"]
    /\ submissions' = [submissions EXCEPT ![i].invoked = @ + 1,
                                          ![i].by = @ \cup {who}]
    /\ UNCHANGED <<pipes, config, k8sVars, condorVars>>

\* ... and left, by returning or by raising.
CCallEnd(i, who, raises) ==
    /\ dcall[i].pc[who] = "c_in_f"
    /\ dcall' = [dcall EXCEPT ![i].pc[who] = IF raises THEN "c_failed" ELSE "c_called",
                              ![i].f = IF raises THEN "raised" ELSE "returned"]
    /\ submissions' = [submissions EXCEPT ![i].finished = @ + 1]
    /\ UNCHANGED <<pipes, config, k8sVars, condorVars>>

\* w.write(str(out)) (line 50): into the buffer of the file object.
CWrite(i, who) ==
    /\ dcall[i].pc[who] = "c_called"
    /\ dcall' = [dcall EXCEPT ![i].pc[who] = "c_written",
                              ![i].buffer = py_str(SubmissionResult(i)).v]
    /\ UNCHANGED <<pipes, submissions, config, k8sVars, condorVars>>

\* w.close() (line 51): the buffer goes to the pipe, the write end closes.
CClose(i, who) ==
    /\ dcall[i].pc[who] = "c_written"
    /\ dcall' = [dcall EXCEPT ![i].pc[who] = "c_closed", ![i].buffer = ""]
    /\ pipes' = [pipes EXCEPT ![i].data = @ \o dcall[i].buffer,
                              ![i].writers = @ \ {Holder(i, who)}]
    /\ UNCHANGED <<submissions, config, k8sVars, condorVars>>

\* finally: os._exit(0) (lines 52-53): the process ends without flushing
\* and every descriptor it holds is closed.
CExit(i, who) ==
    /\ dcall[i].pc[who] \in {"c_closed", "c_failed"}
    /\ dcall' = [dcall EXCEPT ![i].pc[who] = "exited", ![i].buffer = "",
                              ![i].exit_status = PyInt(0)]
    /\ pipes' = [k \in Calls |->
                   [pipes[k] EXCEPT !.writers = @ \ {Holder(i, who)}]]
    /\ UNCHANGED <<submissions, config, k8sVars, condorVars>>

NextDetach ==
    \E i \in Calls :
        \/ DPipe(i)
        \/ DFork(i)
        \/ \E who \in Procs :
              \/ PCloseW(i, who)
              \/ PRead(i, who)
              \/ CPrepare(i, who)
              \/ \E outcome \in DropOutcomes : CDropPrivileges(i, who, outcome)
              \/ CCallBegin(i, who)
              \/ \E raises \in BOOLEAN : CCallEnd(i, who, raises)
              \/ CWrite(i, who)
              \/ CClose(i, who)
              \/ CExit(i, who)

SpecDetach == InitDetach /\ [][NextDetach]_vars

(***************************************************************************)
(* Properties of detach.                                                   *)
(***************************************************************************)
CallReturned(i) == \E who \in Procs : dcall[i].pc[who] = "p_returned"

\* One child per call, the submission only in the child and at most once,
\* and a returned call's child has ended its submission and closed its end
\* of the pipe (it closed it, or it has exited).
ForkedOnceAndWaited(i) ==
    /\ submissions[i].forks <= 1
    /\ dcall[i].pc.orig \notin {"start", "piped"} => submissions[i].forks = 1
    /\ submissions[i].by \subseteq {"forked"}
    /\ submissions[i].invoked <= 1
    /\ CallReturned(i) =>
          /\ dcall[i].pc.orig = "p_returned"
          /\ dcall[i].pc.forked \in {"c_closed", "exited"}
          /\ submissions[i].finished = submissions[i].invoked

\* C10 as the claim states it: every call forks one child that invokes the
\* submission exactly once, and the call returns only after the child has
\* finished it and closed its end of the pipe; no submission in the parent.
C10_ExactlyOnceBeforeReturn ==
    \A i \in Calls :
        /\ ForkedOnceAndWaited(i)
        /\ CallReturned(i) => submissions[i].invoked = 1

\* C10, amended: every call forks one child that invokes the submission at
\* most once, and exactly once when the child's switch of identity
\* (getpwnam, setuid) succeeded; the call returns only after the child has
\* ended its submission, if it began one, and closed its end of the pipe;
\* no submission runs in the parent or more than once.
C10_AtMostOnceBeforeReturn ==
    \A i \in Calls :
        /\ ForkedOnceAndWaited(i)
        /\ CallReturned(i) =>
              submissions[i].invoked = (IF dcall[i].dropped THEN 1 ELSE 0)

C10_Witness ==
    /\ dcall[1].pc.orig = "p_returned"
    /\ dcall[1].dropped
    /\ submissions[1].invoked = 1
    /\ dcall[1].ret = PyStr("41")
    /\ 1 \in pipes[2].writers
    /\ dcall[2].pc.forked = "c_in_f"

\* C12: when the wrapped submission raises in the child, the child writes
\* nothing to the pipe and exits with status 0, and the parent's call
\* returns the empty string; a returned call's value is the string form of
\* the child's result (the empty string when the child has none); the
\* parent never raises, so a retry wrapper around the detached function
\* makes exactly one attempt, whatever its ceiling.
C12_ChildFailureIsEmptyString ==
    \A i \in Calls :
        /\ dcall[i].f = "raised" =>
              /\ pipes[i].data = ""
              /\ dcall[i].buffer = ""
              /\ dcall[i].pc.forked \in {"c_failed", "exited"}
        /\ dcall[i].pc.forked = "exited" => dcall[i].exit_status = PyInt(0)
        /\ \A who \in Procs : dcall[i].pc[who] # "p_raised"
        /\ CallReturned(i) =>
              /\ dcall[i].ret = IF dcall[i].f = "returned"
                                THEN py_str(SubmissionResult(i)) ELSE PyStr("")
              /\ submissions[i].attempts = 1
              /\ submissions[i].forks = 1
        /\ submissions[i].attempts <= 1

C12_Witness ==
    /\ config.MAX_JOB_RESTARTS = MaxRestartCeiling
    /\ dcall[1].pc.orig = "p_returned"
    /\ dcall[1].f = "raised"
    /\ dcall[1].pc.forked = "exited"
    /\ dcall[1].exit_status = PyInt(0)
    /\ dcall[1].ret = PyStr("")
    /\ submissions[1].attempts = 1
    /\ dcall[2].ret = PyStr("42")

====
